---------------------------- MODULE Spec2Model ----------------------------
(***************************************************************************)
(* A model of convert_form_app.py, the AC phasor converter: the helpers    *)
(* to_rect, to_polar, complex_latex, polar_latex and wrap_angle, and the   *)
(* script body that reads the form, converts and renders.                  *)
(*                                                                         *)
(* Python floats are modelled as a small binary floating-point format: a   *)
(* sign, and a magnitude counted in units of 1/Den that carries at most    *)
(* MantBits significant bits (round to nearest, ties to even), with signed *)
(* zeros, infinities and NaN.  float64 is the same format with a 53-bit    *)
(* significand; every tolerance below is stated in units of 1/Den.         *)
(***************************************************************************)
EXTENDS Integers, Sequences, FiniteSets, TLC

\* Fractional bits of the unit: a finite float is a multiple of 1/Den.
FracBits == 10
\* Significant bits of a float (53 in float64).
MantBits == 12

Den == 2^FracBits
\* Internal scale of the library functions' evaluation (four guard bits).
ISc == Den * 16

\* body(v) with v the value of e, which is evaluated once.
With(e, body(_)) == CHOOSE r \in {body(v) : v \in {e}} : TRUE
\* body(v, w) with v and w the values of e and f, each evaluated once.
With2(e, f, body(_, _)) == CHOOSE r \in {body(v, w) : v \in {e}, w \in {f}} : TRUE

-----------------------------------------------------------------------------
(* Floats *)

Fin(neg, m) == [k |-> "fin", neg |-> neg, m |-> m]
Inf(neg) == [k |-> "inf", neg |-> neg, m |-> 0]
NaN == [k |-> "nan", neg |-> FALSE, m |-> 0]

IsFin(a) == a.k = "fin"
IsInf(a) == a.k = "inf"
IsNaN(a) == a.k = "nan"
IsZero(a) == a.k = "fin" /\ a.m = 0

Abs(n) == IF n < 0 THEN -n ELSE n

\* The signed number of units of a finite float.
Val(a) == IF a.neg THEN -a.m ELSE a.m

RECURSIVE BitLen(_)
\* The number of bits of a natural number.
BitLen(n) == IF n = 0 THEN 0 ELSE 1 + BitLen(n \div 2)

\* The spacing of the floats around a magnitude of n units.
Ulp(n) == IF n < 2^MantBits THEN 1 ELSE 2^(BitLen(n) - MantBits)

\* A magnitude of q units plus a fraction of a unit, rounded to a float's
\* magnitude, ties to even; c is the fraction: 0 none, 1 below half, 2 half,
\* 3 above half.
RoundR(q, c) ==
    With(Ulp(q), LAMBDA s :
        LET q2 == q \div s
            r2 == q % s
            up == IF s = 1
                  THEN c = 3 \/ (c = 2 /\ q % 2 = 1)
                  ELSE 2 * r2 > s \/ (2 * r2 = s /\ (c > 0 \/ q2 % 2 = 1))
        IN IF up THEN (q2 + 1) * s ELSE q2 * s)

\* The rational a/b units (a >= 0, b > 0) rounded to a float's magnitude.
RoundQ(a, b) ==
    With2(a \div b, a % b, LAMBDA q, rem :
        RoundR(q, IF rem = 0 THEN 0
                  ELSE IF 2 * rem < b THEN 1
                  ELSE IF 2 * rem = b THEN 2 ELSE 3))

\* n units rounded to a float's magnitude.
RN(n) == With(n, LAMBDA v : RoundR(v, 0))

\* A float from a signed number of units (zero is +0.0).
FromVal(n) == With(n, LAMBDA v : Fin(v < 0, RoundR(Abs(v), 0)))

\* The float of a whole number.
FInt(n) == FromVal(n * Den)

\* -a
FNeg(x) == With(x, LAMBDA a : IF IsNaN(a) THEN NaN ELSE [a EXCEPT !.neg = ~a.neg])

\* abs(a)
FAbs(x) == With(x, LAMBDA a : IF IsNaN(a) THEN NaN ELSE [a EXCEPT !.neg = FALSE])

\* a + b
FAdd(x, y) ==
    With2(x, y, LAMBDA a, b :
        IF IsNaN(a) \/ IsNaN(b) THEN NaN
        ELSE IF IsInf(a) /\ IsInf(b) THEN (IF a.neg = b.neg THEN a ELSE NaN)
        ELSE IF IsInf(a) THEN a
        ELSE IF IsInf(b) THEN b
        ELSE IF Val(a) + Val(b) = 0 THEN Fin(a.neg /\ b.neg, 0)
        ELSE FromVal(Val(a) + Val(b)))

\* a - b
FSub(x, y) == FAdd(x, FNeg(y))

\* a * b
FMul(x, y) ==
    With2(x, y, LAMBDA a, b :
        IF IsNaN(a) \/ IsNaN(b) THEN NaN
        ELSE IF IsInf(a) \/ IsInf(b)
             THEN (IF IsZero(a) \/ IsZero(b) THEN NaN ELSE Inf(a.neg # b.neg))
        ELSE Fin(a.neg # b.neg, RoundQ(a.m * b.m, Den)))

\* a <= 0 and a >= 0 as Python compares floats (NaN compares false).
FLeZero(x) == With(x, LAMBDA a : ~IsNaN(a) /\ (a.neg \/ IsZero(a)))
FGeZero(x) == With(x, LAMBDA a : ~IsNaN(a) /\ (~a.neg \/ IsZero(a)))

\* The place of a float that is not NaN in the order of the floats.
Key(a) == IF IsInf(a) THEN (IF a.neg THEN -(2^30) ELSE 2^30) ELSE Val(a)
\* a < b, a <= b and a == b as Python compares floats.
FLt(x, y) == With2(x, y, LAMBDA a, b : ~IsNaN(a) /\ ~IsNaN(b) /\ Key(a) < Key(b))
FLe(x, y) == With2(x, y, LAMBDA a, b : ~IsNaN(a) /\ ~IsNaN(b) /\ Key(a) <= Key(b))
FEq(x, y) == With2(x, y, LAMBDA a, b : ~IsNaN(a) /\ ~IsNaN(b) /\ Key(a) = Key(b))

\* a % w for a finite w > 0 (float_rem of CPython: fmod, then the sign of w).
FMod(x, y) ==
    With2(x, y, LAMBDA a, w :
        IF ~IsFin(a) THEN NaN
        ELSE IF a.m % w.m = 0 THEN Fin(FALSE, 0)
        ELSE IF a.neg THEN FAdd(Fin(TRUE, a.m % w.m), w)
        ELSE Fin(FALSE, a.m % w.m))

-----------------------------------------------------------------------------
(* The math library: pi, radians, degrees, cos, sin, atan2, hypot.  Each    *)
(* returns the float nearest the real result, evaluated in fixed point at  *)
(* the scale ISc with pi taken as 355/113.                                 *)

\* math.pi, and the quarter turns atan2 returns on the axes and diagonals.
PI == Fin(FALSE, RoundQ(355 * Den, 113))
HalfPI == Fin(FALSE, RoundQ(355 * Den, 226))
QuarterPI == Fin(FALSE, RoundQ(355 * Den, 452))
ThreeQuarterPI == Fin(FALSE, RoundQ(1065 * Den, 452))

\* math.radians(a)
Radians(x) ==
    With(x, LAMBDA a : IF IsFin(a) THEN Fin(a.neg, RoundQ(a.m * 355, 20340)) ELSE a)

\* math.degrees(a)
Degrees(x) ==
    With(x, LAMBDA a : IF IsFin(a) THEN Fin(a.neg, RoundQ(a.m * 20340, 355)) ELSE a)

\* Units of the internal scale per unit of 1/Den.
Guard == ISc \div Den
TwoPiI == (710 * ISc + 56) \div 113
PiI == (355 * ISc + 56) \div 113
HalfPiI == (355 * ISc + 113) \div 226
QuarterPiI == (355 * ISc + 226) \div 452

\* a * b at the internal scale, for a, b >= 0.
IMul(a, b) == (a * b) \div ISc

\* cos r at the internal scale, for 0 <= r <= pi/4 (Taylor, Horner form).
CosPoly(r) ==
    With(IMul(r, r), LAMBDA r2 :
        ISc - IMul(r2, ISc - IMul(r2, ISc - r2 \div 30) \div 12) \div 2)

\* sin r at the internal scale, for 0 <= r <= pi/4 (Taylor, Horner form).
SinPoly(r) ==
    With(IMul(r, r), LAMBDA r2 :
        IMul(r, ISc - IMul(r2, ISc - IMul(r2, ISc - r2 \div 42) \div 20) \div 6))

\* <<cos, sin>> at the internal scale of an angle in quadrant q, r past its start.
CosSinQ(q, r) ==
    With2(IF r <= QuarterPiI THEN CosPoly(r) ELSE SinPoly(Abs(HalfPiI - r)),
          IF r <= QuarterPiI THEN SinPoly(r) ELSE CosPoly(Abs(HalfPiI - r)),
          LAMBDA c0, s0 :
              CASE q = 0 -> <<c0, s0>>
                [] q = 1 -> <<-s0, c0>>
                [] q = 2 -> <<-c0, -s0>>
                [] OTHER -> <<s0, -c0>>)

\* <<cos t, sin t>> at the internal scale for an angle of t >= 0 internal units.
CosSinI(t) ==
    With(t % TwoPiI, LAMBDA u :
        With(IF u \div HalfPiI > 3 THEN 3 ELSE u \div HalfPiI, LAMBDA q :
            CosSinQ(q, u - q * HalfPiI)))

\* A signed internal value as a float; a value that rounds to zero keeps its sign.
FromI(neg, c) == Fin(neg, RoundQ(c, Guard))

\* math.cos(a) for a float that is not infinite (an infinity raises ValueError).
Cos(x) ==
    With(x, LAMBDA a :
        IF IsNaN(a) THEN NaN
        ELSE With(CosSinI(a.m * Guard)[1], LAMBDA c : FromI(c < 0, Abs(c))))

\* math.sin(a) for a float that is not infinite (an infinity raises ValueError).
Sin(x) ==
    With(x, LAMBDA a :
        IF IsNaN(a) THEN NaN
        ELSE IF a.m = 0 THEN a
        ELSE With(CosSinI(a.m * Guard)[2], LAMBDA s : FromI((s < 0) # a.neg, Abs(s))))

\* atan u at the internal scale, for 0 <= u <= tan(pi/8) (Taylor, Horner form).
AtanPoly(u) ==
    With(IMul(u, u), LAMBDA u2 :
        IMul(u, ISc - IMul(u2, ISc \div 3 - IMul(u2, ISc \div 5
             - IMul(u2, ISc \div 7 - IMul(u2, ISc \div 9 - IMul(u2, ISc \div 11)))))))

\* atan t at the internal scale, for 0 <= t <= 1.
AtanI(t) ==
    With(t, LAMBDA v :
        IF 1000 * v <= 414 * ISc THEN AtanPoly(v)
        ELSE QuarterPiI - AtanPoly(((ISc - v) * ISc) \div (ISc + v)))

\* The power of two that brings the larger of a and b units under 2^15
\* (a float that large has that many trailing zero bits).
Scale(a, b) ==
    With(BitLen(IF a > b THEN a ELSE b), LAMBDA n :
        IF n > 15 THEN 2^(n - 15) ELSE 1)

\* The angle of the point (a, b) of the first quadrant, a, b > 0 units.
AngleI(a, b) ==
    With(Scale(a, b), LAMBDA k :
        IF a \div k >= b \div k THEN AtanI(((b \div k) * ISc) \div (a \div k))
        ELSE HalfPiI - AtanI(((a \div k) * ISc) \div (b \div k)))

\* math.atan2(y, x)
Atan2(y0, x0) ==
    With2(y0, x0, LAMBDA y, x :
        IF IsNaN(x) \/ IsNaN(y) THEN NaN
        ELSE IF IsInf(y)
             THEN [(IF IsInf(x) THEN (IF x.neg THEN ThreeQuarterPI ELSE QuarterPI)
                    ELSE HalfPI) EXCEPT !.neg = y.neg]
        ELSE IF IsInf(x) \/ y.m = 0
             THEN [(IF x.neg THEN PI ELSE Fin(FALSE, 0)) EXCEPT !.neg = y.neg]
        ELSE IF x.m = 0 THEN [HalfPI EXCEPT !.neg = y.neg]
        ELSE With(AngleI(x.m, y.m), LAMBDA a0 :
                 FromI(y.neg, IF x.neg THEN PiI - a0 ELSE a0)))

RECURSIVE Isqrt(_)
\* The integer square root.
Isqrt(n) ==
    IF n < 2 THEN n
    ELSE With(2 * Isqrt(n \div 4), LAMBDA s :
             IF (s + 1) * (s + 1) <= n THEN s + 1 ELSE s)

\* The square root of n units squared, as a float's magnitude.
SqrtR(n) ==
    With(Isqrt(n), LAMBDA s :
        RoundR(s, IF n = s * s THEN 0 ELSE IF n - s * s <= s THEN 1 ELSE 3))

\* math.hypot(x, y)
Hypot(x0, y0) ==
    With2(x0, y0, LAMBDA x, y :
        IF IsInf(x) \/ IsInf(y) THEN Inf(FALSE)
        ELSE IF IsNaN(x) \/ IsNaN(y) THEN NaN
        ELSE With(Scale(x.m, y.m), LAMBDA k :
                 With((x.m \div k) * (x.m \div k) + (y.m \div k) * (y.m \div k),
                      LAMBDA n : Fin(FALSE, k * SqrtR(n)))))

-----------------------------------------------------------------------------
(* Rendering of floats: the format specification .{p}f *)

MinPrecision == 0
MaxPrecision == 6
Precisions == MinPrecision..MaxPrecision

Digit(d) == <<"0", "1", "2", "3", "4", "5", "6", "7", "8", "9">>[d + 1]

RECURSIVE Digits(_)
\* The decimal digits of a natural number.
Digits(n) == IF n < 10 THEN <<Digit(n)>> ELSE Digits(n \div 10) \o <<Digit(n % 10)>>

RECURSIVE Padded(_, _)
\* The last w decimal digits of n, zeros included.
Padded(n, w) == IF w = 0 THEN <<>> ELSE Padded(n \div 10, w - 1) \o <<Digit(n % 10)>>

\* |a| * 10^p rounded to a whole number, halves to even: the digits .{p}f prints.
Scaled(a, p) ==
    With((a.m % Den) * 10^p, LAMBDA sc :
        With2((a.m \div Den) * 10^p + sc \div Den, sc % Den, LAMBDA n, rem :
            IF 2 * rem > Den \/ (2 * rem = Den /\ n % 2 = 1) THEN n + 1 ELSE n))

\* f"{a:.{p}f}" as a sequence of characters.
Format(x, p) ==
    With(x, LAMBDA a :
        IF IsNaN(a) THEN <<"n", "a", "n">>
        ELSE (IF a.neg THEN <<"-">> ELSE <<>>)
             \o (IF IsInf(a) THEN <<"i", "n", "f">>
                 ELSE With(Scaled(a, p), LAMBDA n :
                          Digits(n \div 10^p)
                          \o (IF p = 0 THEN <<>>
                              ELSE <<".">> \o Padded(n % 10^p, p)))))

-----------------------------------------------------------------------------
(* Helpers *)

\* The float of 180, of 360 and of 2 * math.pi.
F180 == FInt(180)
F360 == FInt(360)
TwoPI == FMul(FInt(2), PI)

\* theta of to_rect: the angle in radians.
Theta(ang, degrees) == IF degrees THEN Radians(ang) ELSE ang

\* math.cos and math.sin raise ValueError (math domain error) on an infinity.
ToRectRaises(ang, degrees) == IsInf(Theta(ang, degrees))

\* to_rect without the conversion of a degrees angle to radians.
to_rect_unconverted(mag, ang, degrees) ==
    With2(mag, ang, LAMBDA r, theta :
        <<FMul(r, Cos(theta)), FMul(r, Sin(theta))>>)

\* to_rect(mag, ang, degrees): <<x, y>>, where it does not raise.
to_rect(mag, ang, degrees) ==
    With2(mag, Theta(ang, degrees), LAMBDA r, theta :
        <<FMul(r, Cos(theta)), FMul(r, Sin(theta))>>)

\* to_polar without the conversion of the angle to degrees.
to_polar_unconverted(x, y, degrees) ==
    With2(x, y, LAMBDA re, im : <<Hypot(re, im), Atan2(im, re)>>)

\* to_polar(x, y, degrees): <<mag, ang>>.
to_polar(x, y, degrees) ==
    With2(x, y, LAMBDA re, im :
        <<Hypot(re, im), IF degrees THEN Degrees(Atan2(im, re)) ELSE Atan2(im, re)>>)

\* The sign before j taken from the sign bit of y instead of y >= 0.
ImagSignBit(y) == IF y.neg THEN "-" ELSE "+"

\* The sign complex_latex prints before j.
ImagSign(y) == IF FGeZero(y) THEN "+" ELSE "-"

\* complex_latex(x, y, p), a sequence of characters and LaTeX commands.
complex_latex(x, y, p) ==
    With(y, LAMBDA im :
        <<"\\displaystyle ">> \o Format(x, p) \o <<"\\ ", ImagSign(im), "\\ j">>
            \o Format(FAbs(im), p))

\* angle_tex of polar_latex.
AngleTex(ang, p, degrees) ==
    IF degrees THEN Format(ang, p) \o <<"^\\circ">> ELSE Format(ang, p)

\* polar_latex(mag, ang, p, degrees): <<rect_arrow, expo>>.
polar_latex(mag, ang, p, degrees) ==
    With2(Format(mag, p), AngleTex(ang, p, degrees), LAMBDA mag_tex, angle_tex :
        << <<"\\displaystyle ">> \o mag_tex \o <<"\\,\\angle\\,">> \o angle_tex,
           <<"\\displaystyle ">> \o mag_tex \o <<"\\,e^{j\\,">> \o angle_tex
               \o <<"}">> >>)

\* wrap_angle(ang, degrees)
wrap_angle(ang, degrees) ==
    IF degrees THEN FSub(FMod(FAdd(ang, F180), F360), F180)
    ELSE FSub(FMod(FAdd(ang, PI), TwoPI), PI)

-----------------------------------------------------------------------------
(* The form and the script *)

VARIABLES
    mode,        \* the conversion mode radio
    deg,         \* the angle unit radio is on Degrees
    precision,   \* the display precision slider
    show_plot,   \* the "Show phasor plot" checkbox
    wrap,        \* the "Wrap angle" checkbox
    txt1,        \* the text of the first input (magnitude, or real part)
    txt2,        \* the text of the second input (angle, or imaginary part)
    out,         \* what the last run of the script computed and rendered
    args,        \* the arguments of a helper called on its own
    rets         \* the values that helper returned, in order

vars == <<mode, deg, precision, show_plot, wrap, txt1, txt2, out, args, rets>>
form == <<mode, deg, precision, show_plot, wrap, txt1, txt2>>

PolarToRect == "Polar -> Rectangular"
RectToPolar == "Rectangular -> Polar"
Modes == {PolarToRect, RectToPolar}

\* float(text) for the texts that are numerals; any other text raises ValueError.
Numerals ==
    [t \in {"5.0", "4.33", "0", "-2", "inf", "nan", "30.0", "0.5235987755982988",
            "2.5", "-2.5", "400", "180"} |->
        CASE t = "5.0" -> FInt(5)
          [] t = "4.33" -> Fin(FALSE, RoundQ(433 * Den, 100))
          [] t = "0" -> FInt(0)
          [] t = "-2" -> FInt(-2)
          [] t = "inf" -> Inf(FALSE)
          [] t = "nan" -> NaN
          [] t = "30.0" -> FInt(30)
          [] t = "0.5235987755982988" -> Fin(FALSE, RoundQ(5236 * Den, 10000))
          [] t = "2.5" -> Fin(FALSE, RoundQ(25 * Den, 10))
          [] t = "-2.5" -> Fin(TRUE, RoundQ(25 * Den, 10))
          [] t = "400" -> FInt(400)
          [] t = "180" -> FInt(180)]

\* The texts the form is given, per input.
Field1Texts == {"5.0", "4.33", "abc", "0", "-2", "inf", "nan"}
Field2Texts == {"30.0", "0.5235987755982988", "2.5", "-2.5", "400", "180", "inf", ""}

\* try: v = float(text) except ValueError: v = 0.0
ParseOk(t) == t \in DOMAIN Numerals
ParseOrZero(t) == IF ParseOk(t) THEN Numerals[t] ELSE FInt(0)

\* A value the script did not get to compute.
None == [k |-> "none", neg |-> FALSE, m |-> 0]

\* max(1.0, a, b) of Python: a later argument wins only when it compares greater.
Max3(a, b) ==
    With2(IF FLt(FInt(1), a) THEN a ELSE FInt(1), b, LAMBDA m1, v :
        IF FLt(m1, v) THEN v ELSE m1)

\* The plot section: the axis bound and the annotation label of z = x + jy.
\* The drawing itself, and the rounded values of the expander, are left out.
Plot(x, y, degrees, p, wr) ==
    With2(Hypot(x, y), IF degrees THEN Degrees(Atan2(y, x)) ELSE Atan2(y, x),
          LAMBDA mag_plot, ang_plot :
        With(IF wr THEN wrap_angle(ang_plot, degrees) ELSE ang_plot, LAMBDA ang_disp :
            [lim |-> FMul(Fin(FALSE, RoundQ(12 * Den, 10)), Max3(FAbs(x), FAbs(y))),
             mag_plot |-> mag_plot,
             ang_disp |-> ang_disp,
             label_tex |-> <<"$|z|=">> \o Format(mag_plot, p) \o <<",\\ \\theta=">>
                           \o Format(ang_disp, p)
                           \o (IF degrees THEN <<"^\\circ">> ELSE <<>>) \o <<"$">>]))

NoPlot == [lim |-> None, mag_plot |-> None, ang_disp |-> None, label_tex |-> <<>>]

\* The Polar -> Rectangular branch handing to_rect the displayed angle.
RectAngleDisplayed(ang, disp_ang) == disp_ang

\* The angle the Polar -> Rectangular branch hands to to_rect.
RectAngle(ang, disp_ang) == ang

\* The warning issued after the try block, on whatever value mag holds.
WarnsOnValue(t) == FLeZero(ParseOrZero(t))

\* st.warning is called: the magnitude text parsed and the value is <= 0.
Warns(t) == ParseOk(t) /\ FLeZero(Numerals[t])

\* The Polar -> Rectangular branch of the script, followed by the plot.
RunPolarToRect(degrees, p, plot, wr, t1, t2) ==
    With2(ParseOrZero(t1), ParseOrZero(t2), LAMBDA mag, ang :
    With(IF wr THEN wrap_angle(ang, degrees) ELSE ang, LAMBDA disp_ang :
        IF ToRectRaises(RectAngle(ang, disp_ang), degrees)
        THEN [outcome |-> "ValueError", warned |-> Warns(t1),
              x |-> None, y |-> None, mag |-> mag, ang |-> None,
              rect |-> <<>>, arrow |-> <<>>, expo |-> <<>>,
              plotted |-> FALSE, plot |-> NoPlot]
        ELSE With2(to_rect(mag, RectAngle(ang, disp_ang), degrees),
                   polar_latex(mag, disp_ang, p, degrees), LAMBDA z, pl :
                 [outcome |-> "ok", warned |-> Warns(t1),
                  x |-> z[1], y |-> z[2], mag |-> mag, ang |-> disp_ang,
                  rect |-> complex_latex(z[1], z[2], p),
                  arrow |-> pl[1], expo |-> pl[2],
                  plotted |-> plot,
                  plot |-> IF plot THEN Plot(z[1], z[2], degrees, p, wr)
                           ELSE NoPlot])))

\* The Rectangular -> Polar branch with z rebuilt from the polar form.
RunRectToPolarFromPolar(degrees, p, plot, wr, t1, t2) ==
    With(to_polar(ParseOrZero(t1), ParseOrZero(t2), degrees), LAMBDA pol :
    With(to_rect(pol[1], pol[2], degrees), LAMBDA z :
    With(IF wr THEN wrap_angle(pol[2], degrees) ELSE pol[2], LAMBDA ang :
    With(polar_latex(pol[1], ang, p, degrees), LAMBDA pl :
        [outcome |-> "ok", warned |-> FALSE,
         x |-> z[1], y |-> z[2], mag |-> pol[1], ang |-> ang,
         rect |-> complex_latex(z[1], z[2], p),
         arrow |-> pl[1], expo |-> pl[2],
         plotted |-> plot,
         plot |-> IF plot THEN Plot(z[1], z[2], degrees, p, wr) ELSE NoPlot]))))

\* The Rectangular -> Polar branch of the script, followed by the plot.
RunRectToPolar(degrees, p, plot, wr, t1, t2) ==
    With2(ParseOrZero(t1), ParseOrZero(t2), LAMBDA x, y :
    With(to_polar(x, y, degrees), LAMBDA pol :
    With(IF wr THEN wrap_angle(pol[2], degrees) ELSE pol[2], LAMBDA ang :
    With(polar_latex(pol[1], ang, p, degrees), LAMBDA pl :
        [outcome |-> "ok", warned |-> FALSE,
         x |-> x, y |-> y, mag |-> pol[1], ang |-> ang,
         rect |-> complex_latex(x, y, p),
         arrow |-> pl[1], expo |-> pl[2],
         plotted |-> plot,
         plot |-> IF plot THEN Plot(x, y, degrees, p, wr) ELSE NoPlot]))))

\* One run of the script on the form's current values.
Script(m, degrees, p, plot, wr, t1, t2) ==
    IF m = PolarToRect THEN RunPolarToRect(degrees, p, plot, wr, t1, t2)
    ELSE RunRectToPolar(degrees, p, plot, wr, t1, t2)

\* The value= of the two text inputs of a mode.
Default1(m) == IF m = PolarToRect THEN "5.0" ELSE "4.33"
Default2(m, degrees) ==
    IF m = PolarToRect THEN (IF degrees THEN "30.0" ELSE "0.5235987755982988")
    ELSE "2.5"

\* Streamlit reruns the script after every change of a widget.
Rerun == out' = Script(mode', deg', precision', show_plot', wrap', txt1', txt2')

Init ==
    /\ mode = PolarToRect
    /\ deg = TRUE
    /\ precision = 3
    /\ show_plot = TRUE
    /\ wrap = TRUE
    /\ txt1 = Default1(PolarToRect)
    /\ txt2 = Default2(PolarToRect, TRUE)
    /\ out = Script(mode, deg, precision, show_plot, wrap, txt1, txt2)
    /\ args = <<>>
    /\ rets = <<>>

\* The mode radio: the other mode's inputs are new widgets, at their defaults.
SetMode ==
    /\ \E m \in Modes \ {mode} :
         /\ mode' = m
         /\ txt1' = Default1(m)
         /\ txt2' = Default2(m, deg)
    /\ UNCHANGED <<deg, precision, show_plot, wrap, args, rets>>
    /\ Rerun

\* The angle unit radio: the angle input is labelled by the unit, so it is a
\* new widget at the default of the new unit.
SetAngleUnit ==
    /\ deg' = ~deg
    /\ txt2' = IF mode = PolarToRect THEN Default2(mode, deg') ELSE txt2
    /\ UNCHANGED <<mode, precision, show_plot, wrap, txt1, args, rets>>
    /\ Rerun

SetPrecision ==
    /\ \E p \in Precisions \ {precision} : precision' = p
    /\ UNCHANGED <<mode, deg, show_plot, wrap, txt1, txt2, args, rets>>
    /\ Rerun

SetShowPlot ==
    /\ show_plot' = ~show_plot
    /\ UNCHANGED <<mode, deg, precision, wrap, txt1, txt2, args, rets>>
    /\ Rerun

SetWrap ==
    /\ wrap' = ~wrap
    /\ UNCHANGED <<mode, deg, precision, show_plot, txt1, txt2, args, rets>>
    /\ Rerun

EditField1 ==
    /\ \E t \in Field1Texts \ {txt1} : txt1' = t
    /\ UNCHANGED <<mode, deg, precision, show_plot, wrap, txt2, args, rets>>
    /\ Rerun

EditField2 ==
    /\ \E t \in Field2Texts \ {txt2} : txt2' = t
    /\ UNCHANGED <<mode, deg, precision, show_plot, wrap, txt1, args, rets>>
    /\ Rerun

Next ==
    \/ SetMode
    \/ SetAngleUnit
    \/ SetPrecision
    \/ SetShowPlot
    \/ SetWrap
    \/ EditField1
    \/ EditField2

Spec == Init /\ [][Next]_vars

-----------------------------------------------------------------------------
(* wrap_angle called on its own, once and then on its own result *)

\* The form untouched and no run of the script: a helper is called directly.
NoSession ==
    /\ mode = PolarToRect
    /\ deg = TRUE
    /\ precision = 3
    /\ show_plot = TRUE
    /\ wrap = TRUE
    /\ txt1 = Default1(PolarToRect)
    /\ txt2 = Default2(PolarToRect, TRUE)
    /\ out = [outcome |-> "none"]

\* Whole and half degrees around the circle, further turns, and the floats next
\* to the odd multiples of the half turn.
WrapDegrees ==
    {FInt(d) : d \in {-720, -540, -360, -270, -181, -180, -179, -90, -1, 0, 1, 30,
                      90, 179, 180, 181, 270, 360, 400, 540, 720}}
    \cup {Fin(n, 180 * Den + j * Ulp(180 * Den)) : n \in BOOLEAN, j \in 1..2}
    \cup {Fin(n, 180 * Den - j * Ulp(90 * Den)) : n \in BOOLEAN, j \in 1..2}
    \cup {Fin(n, m) : n \in BOOLEAN, m \in {0, Den \div 2}}

\* Radians around the circle: multiples of pi and of pi/2 and the floats next to
\* them.
WrapRadians ==
    {Fin(n, RN(k * HalfPI.m)) : n \in BOOLEAN, k \in 0..6}
    \cup {Fin(n, k * PI.m + j) : n \in BOOLEAN, k \in {1}, j \in {-2, -1, 1, 2}}
    \cup {Fin(n, RN(k * PI.m)) : n \in BOOLEAN, k \in {1, 3}}
    \cup {Fin(n, m) : n \in BOOLEAN, m \in {1, Den}}

InitWrap ==
    /\ NoSession
    /\ args \in {[ang |-> a, degrees |-> TRUE] : a \in WrapDegrees}
                \cup {[ang |-> a, degrees |-> FALSE] : a \in WrapRadians}
    /\ rets = <<>>

\* r = wrap_angle(ang, degrees)
CallWrap ==
    /\ rets = <<>>
    /\ rets' = <<wrap_angle(args.ang, args.degrees)>>
    /\ UNCHANGED <<form, out, args>>

\* r2 = wrap_angle(r, degrees)
CallWrapAgain ==
    /\ Len(rets) = 1
    /\ rets' = Append(rets, wrap_angle(rets[1], args.degrees))
    /\ UNCHANGED <<form, out, args>>

NextWrap ==
    \/ CallWrap
    \/ CallWrapAgain

SpecWrap == InitWrap /\ [][NextWrap]_vars

-----------------------------------------------------------------------------
(* to_polar and to_rect called one after the other, in either order *)

\* Rectangular parts: a grid around the origin and points far out.
TripParts == {FInt(n) : n \in -4..4} \cup {Fin(n, 0) : n \in BOOLEAN}
TripFarPoints ==
    {<<FInt(a), FInt(b)>> : a \in {-400, -300, -100, 100, 250}, b \in {-250, -30, 0, 100}}
    \cup {<<FInt(a), FInt(b)>> : a \in {0}, b \in {-400, 400}}

\* Magnitudes, zero among them, and angles in either unit.
TripMagnitudes == {FInt(n) : n \in {0, 1, 2, 5, 8}}
TripDegrees ==
    {FInt(d) : d \in {-540, -180, -135, -90, -30, 0, 30, 45, 90, 120, 180, 270, 400}}
TripRadians ==
    {Fin(n, m) : n \in BOOLEAN,
                 m \in {0, Den \div 2, Den, QuarterPI.m, HalfPI.m, 2 * Den, PI.m,
                        RN(7 * Den)}}

InitTrip ==
    /\ NoSession
    /\ args \in {[dir |-> "rect", a |-> x, b |-> y, degrees |-> d] :
                    x \in TripParts, y \in TripParts, d \in BOOLEAN}
                \cup {[dir |-> "rect", a |-> z[1], b |-> z[2], degrees |-> d] :
                    z \in TripFarPoints, d \in BOOLEAN}
                \cup {[dir |-> "polar", a |-> r, b |-> t, degrees |-> TRUE] :
                    r \in TripMagnitudes, t \in TripDegrees}
                \cup {[dir |-> "polar", a |-> r, b |-> t, degrees |-> FALSE] :
                    r \in TripMagnitudes, t \in TripRadians}
    /\ rets = <<>>

\* The pair the next call takes: the arguments, then the last result.
TripInput == IF rets = <<>> THEN <<args.a, args.b>> ELSE rets[Len(rets)]

\* mag, ang = to_polar(x, y, degrees)
CallToPolar ==
    /\ \/ args.dir = "rect" /\ Len(rets) = 0
       \/ args.dir = "polar" /\ Len(rets) = 1
    /\ rets' = Append(rets, to_polar(TripInput[1], TripInput[2], args.degrees))
    /\ UNCHANGED <<form, out, args>>

\* x, y = to_rect(mag, ang, degrees)
CallToRect ==
    /\ \/ args.dir = "polar" /\ Len(rets) = 0
       \/ args.dir = "rect" /\ Len(rets) = 1
    /\ ~ToRectRaises(TripInput[2], args.degrees)
    /\ rets' = Append(rets, to_rect(TripInput[1], TripInput[2], args.degrees))
    /\ UNCHANGED <<form, out, args>>

NextTrip ==
    \/ CallToPolar
    \/ CallToRect

SpecTrip == InitTrip /\ [][NextTrip]_vars

-----------------------------------------------------------------------------
(* complex_latex called on its own *)

\* Real parts, and imaginary parts with both zeros, the smallest floats, halves
\* that round either way, both infinities and NaN.
LatexReals == {Fin(FALSE, 0), Fin(TRUE, 0), FInt(3), Fin(TRUE, 5 * (Den \div 4)), NaN}
LatexImags ==
    {Fin(n, m) : n \in BOOLEAN,
                 m \in {0, 1, Den \div 8, Den \div 2, Den - 1, Den, Den + Den \div 32}}
    \cup {Inf(FALSE), Inf(TRUE), NaN}

InitLatex ==
    /\ NoSession
    /\ args \in [x : LatexReals, y : LatexImags, p : Precisions]
    /\ rets = <<>>

\* s = complex_latex(x, y, p)
CallComplexLatex ==
    /\ rets = <<>>
    /\ rets' = <<complex_latex(args.x, args.y, args.p)>>
    /\ UNCHANGED <<form, out, args>>

NextLatex == CallComplexLatex

SpecLatex == InitLatex /\ [][NextLatex]_vars

-----------------------------------------------------------------------------
(* Properties of wrap_angle, under SpecWrap *)

\* The half period and the period of an angle unit, as floats.
HalfPeriod(degrees) == IF degrees THEN F180 ELSE PI
Period(degrees) == IF degrees THEN F360 ELSE TwoPI

\* The distance, in units, from r - t to the nearest multiple of the period.
OffPeriod(r, t, degrees) ==
    With2((Val(r) - Val(t)) % Period(degrees).m, Period(degrees).m, LAMBDA d, w :
        IF d > w - d THEN w - d ELSE d)

\* C1: every result of wrap_angle lies in the half-open interval that is open
\* at minus the half period and closed at the half period: (-180, 180] in
\* degrees and (-pi, pi] in radians.
WrapInHalfOpenRange ==
    \A i \in 1..Len(rets) :
        /\ FLt(FNeg(HalfPeriod(args.degrees)), rets[i])
        /\ FLe(rets[i], HalfPeriod(args.degrees))

\* wrap_angle(a) differs from a by a whole number of periods, to within the
\* spacing of the floats at |a| plus the half period, and wrap_angle(270) is -90
\* in degrees.
WrapCongruent ==
    /\ Len(rets) >= 1 =>
         OffPeriod(rets[1], args.ang, args.degrees)
             <= Ulp(args.ang.m + HalfPeriod(args.degrees).m)
    /\ (Len(rets) >= 1 /\ args.degrees /\ args.ang = FInt(270)) =>
         rets[1] = FInt(-90)

\* C2: wrap_angle is idempotent, wrap_angle(wrap_angle(a)) == wrap_angle(a), and
\* period-preserving: its result differs from a by a whole number of periods,
\* and wrap_angle(270) is -90 in degrees.
WrapIdempotentAndCongruent ==
    /\ WrapCongruent
    /\ Len(rets) = 2 => FEq(rets[2], rets[1])

-----------------------------------------------------------------------------
(* Properties of the round trips, under SpecTrip *)

\* The spacing of the floats at max(1, |a|).
Spacing(a) == Ulp(IF a.m > Den THEN a.m ELSE Den)

\* The larger of two numbers.
Larger(a, b) == IF a > b THEN a ELSE b

\* The error of a rectangular round trip: the larger deviation of the two parts.
RectError ==
    Larger(Abs(Val(rets[2][1]) - Val(args.a)), Abs(Val(rets[2][2]) - Val(args.b)))

\* A rectangular round trip has run: to_polar, then to_rect on its result.
RectTripDone == args.dir = "rect" /\ Len(rets) = 2

\* A polar round trip has run: to_rect, then to_polar on its result.
PolarTripDone == args.dir = "polar" /\ Len(rets) = 2

\* C3, as amended: to_rect(*to_polar(x, y)) returns (x, y) to within a
\* tolerance relative to the magnitude: four spacings of the floats at
\* max(1, |z|), in both units, the zero vector and the negative real axis
\* included.
RectRoundTripRelative ==
    RectTripDone =>
        /\ IsFin(rets[2][1]) /\ IsFin(rets[2][2])
        /\ RectError <= 4 * Spacing(rets[1][1])

\* C3, as stated: to_rect(*to_polar(x, y)) returns (x, y) to within one absolute
\* tolerance, whatever the magnitude: four spacings of the floats at 1.
RectRoundTripAbsolute ==
    RectTripDone =>
        /\ IsFin(rets[2][1]) /\ IsFin(rets[2][2])
        /\ RectError <= 4 * Ulp(Den)

\* A round trip of a point far from the origin whose error is beyond the
\* absolute tolerance.
RectRoundTripFar ==
    /\ RectTripDone
    /\ args.a.m >= 100 * Den
    /\ RectError > 4 * Ulp(Den)

\* The recovered magnitude is the magnitude given, to two spacings.
MagnitudeRecovered == Abs(Val(rets[2][1]) - Val(args.a)) <= 2 * Spacing(args.a)

\* The recovered angle is the angle given modulo the period, to two spacings of
\* the floats at the larger of the angle and the half period.
AngleRecovered ==
    OffPeriod(rets[2][2], args.b, args.degrees)
        <= 2 * Ulp(Larger(args.b.m, HalfPeriod(args.degrees).m))

\* C4, as amended: to_polar(*to_rect(mag, theta)) recovers a magnitude > 0 and
\* the angle modulo the period; from magnitude 0 it returns magnitude 0 and an
\* angle of zero or of half a period, whatever theta was.
PolarRoundTripNonZero ==
    PolarTripDone =>
        IF args.a.m > 0
        THEN MagnitudeRecovered /\ AngleRecovered
        ELSE /\ IsZero(rets[2][1])
             /\ rets[2][2].m \in {0, HalfPeriod(args.degrees).m}

\* C4, as stated: to_polar(*to_rect(mag, theta)) recovers the magnitude and the
\* angle modulo the period for every magnitude >= 0, zero included.
PolarRoundTripAll == PolarTripDone => MagnitudeRecovered /\ AngleRecovered

\* A round trip from magnitude 0 at 30 degrees: the angle comes back as 0.
PolarRoundTripLosesAngle ==
    /\ PolarTripDone
    /\ IsZero(args.a) /\ args.degrees /\ args.b = FInt(30)
    /\ IsZero(rets[2][1]) /\ IsZero(rets[2][2])

-----------------------------------------------------------------------------
(* Properties of the session, under Spec *)

\* The script run on the form as it is, but for the unit, precision and wrap.
Alternative(degrees, p, wr) == Script(mode, degrees, p, show_plot, wr, txt1, txt2)

\* Two runs have the same outcome and the same underlying value (x, y).
SameValue(o1, o2) == o1.outcome = o2.outcome /\ o1.x = o2.x /\ o1.y = o2.y

\* C5: in Polar -> Rectangular mode, toggling the wrap checkbox leaves the
\* rectangular value (x, y) and its rendered string as they were; only the
\* angle of the polar strings may change.
WrapIsDisplayOnly ==
    [][(mode = PolarToRect /\ wrap' # wrap) =>
          (SameValue(out', out) /\ out'.rect = out.rect)]_vars

\* Polar -> Rectangular at 400 with wrapping off: the polar strings show another
\* angle than they would with wrapping on.
WrapChangesPolarStrings ==
    /\ mode = PolarToRect /\ ~wrap /\ txt2 = "400"
    /\ out.outcome = "ok"
    /\ out.arrow # Alternative(deg, precision, TRUE).arrow
    /\ out.expo # Alternative(deg, precision, TRUE).expo

\* C6: a text that does not parse counts as 0.0, for its own field only, and
\* every run of the script completes with a full result; none ends in an error.
ConversionAlwaysCompletes ==
    /\ out.outcome = "ok"
    /\ (mode = PolarToRect /\ ~ParseOk(txt1)) => IsZero(out.x) /\ IsZero(out.y)
    /\ (mode = RectToPolar /\ ~ParseOk(txt1)) => out.x = FInt(0)
    /\ (mode = RectToPolar /\ ~ParseOk(txt2)) => out.y = FInt(0)
    /\ (mode = RectToPolar /\ ParseOk(txt1)) => out.x = Numerals[txt1]
    /\ (mode = RectToPolar /\ ParseOk(txt2)) => out.y = Numerals[txt2]

\* The magnitude is used as it is: in to_rect and at the head of the polar
\* strings.
MagnitudeUnchanged ==
    (mode = PolarToRect /\ out.outcome = "ok") =>
        /\ <<out.x, out.y>> = to_rect(out.mag, ParseOrZero(txt2), deg)
        /\ SubSeq(out.arrow, 2, 1 + Len(Format(out.mag, precision)))
               = Format(out.mag, precision)
        /\ SubSeq(out.expo, 2, 1 + Len(Format(out.mag, precision)))
               = Format(out.mag, precision)

\* C7, as amended: in Polar -> Rectangular mode the warning is issued exactly
\* when the magnitude text parses as a float and its value is <= 0; a text that
\* does not parse gives magnitude 0.0 without a warning; the magnitude is used
\* unchanged, and Rectangular -> Polar mode never warns.
WarningIffParsedNonPositive ==
    /\ mode = PolarToRect =>
         /\ out.mag = (IF ParseOk(txt1) THEN Numerals[txt1] ELSE FInt(0))
         /\ out.warned <=> (ParseOk(txt1) /\ FLeZero(out.mag))
    /\ MagnitudeUnchanged
    /\ mode = RectToPolar => ~out.warned

\* C7, as stated: in Polar -> Rectangular mode the warning is issued exactly
\* when the magnitude used is <= 0, however it was obtained; the magnitude is
\* used unchanged, and Rectangular -> Polar mode never warns.
WarningIffNonPositive ==
    /\ mode = PolarToRect => (out.warned <=> FLeZero(out.mag))
    /\ MagnitudeUnchanged
    /\ mode = RectToPolar => ~out.warned

\* The magnitude text "abc": the conversion runs on magnitude 0.0, unwarned.
ZeroFromUnparsedTextUnwarned ==
    /\ mode = PolarToRect /\ txt1 = "abc"
    /\ out.outcome = "ok" /\ IsZero(out.mag) /\ IsZero(out.x)
    /\ ~out.warned

\* C8, as amended: the precision and the wrap checkbox never change the
\* underlying value (x, y), and in Rectangular -> Polar mode neither does the
\* angle unit.
OptionsKeepValue ==
    \A d \in BOOLEAN, p \in Precisions, wr \in BOOLEAN :
        (d = deg \/ mode = RectToPolar) => SameValue(Alternative(d, p, wr), out)

\* C8, as stated: no display option changes the underlying value (x, y):
\* not the precision, not the wrap checkbox, not the angle unit, in any mode.
OptionsKeepValueInAnyMode ==
    \A d \in BOOLEAN, p \in Precisions, wr \in BOOLEAN :
        SameValue(Alternative(d, p, wr), out)

\* Polar -> Rectangular on the text 30.0 read as radians: read as degrees the
\* same texts give another (x, y).
UnitChangesPolarInput ==
    /\ mode = PolarToRect /\ ~deg /\ txt1 = "5.0" /\ txt2 = "30.0"
    /\ out.outcome = "ok"
    /\ ~SameValue(Alternative(TRUE, precision, wrap), out)
    /\ SameValue(Alternative(deg, MinPrecision, ~wrap), out)

\* Two floats are the same kind of value and, when finite, within tol units.
Near(a, b, tol) ==
    /\ a.k = b.k
    /\ IsFin(a) => Abs(Val(a) - Val(b)) <= tol
    /\ IsInf(a) => a.neg = b.neg

\* C9: when the plot is shown, the magnitude and the angle of its label are the
\* magnitude and the angle of the polar strings (to within four spacings of the
\* floats), in both modes.
LabelMatchesDisplay ==
    (out.outcome = "ok" /\ out.plotted) =>
        /\ Near(out.plot.mag_plot, out.mag, 4 * Spacing(out.mag))
        /\ Near(out.plot.ang_disp, out.ang,
                4 * Ulp(Larger(out.ang.m, HalfPeriod(deg).m)))

-----------------------------------------------------------------------------
(* Properties of complex_latex, under SpecLatex *)

\* Where the j of the imaginary term stands in a rendered string.
JPos(s) == CHOOSE i \in 1..Len(s) : s[i] = "\\ j"
\* The sign before the j, and the characters after it.
ImagSignOf(s) == s[JPos(s) - 1]
ImagDigitsOf(s) == SubSeq(s, JPos(s) + 1, Len(s))

\* The characters of a sequence.
Chars(s) == {s[i] : i \in 1..Len(s)}

RECURSIVE NumberOf(_)
\* The number a sequence of decimal digits spells, its point left out.
NumberOf(s) ==
    IF s = <<>> THEN 0
    ELSE IF s[Len(s)] = "." THEN NumberOf(SubSeq(s, 1, Len(s) - 1))
    ELSE 10 * NumberOf(SubSeq(s, 1, Len(s) - 1))
         + (CHOOSE d \in 0..9 : Digit(d) = s[Len(s)])

\* The number of digits after the point.
DecimalsOf(s) ==
    IF "." \in Chars(s) THEN Len(s) - (CHOOSE i \in 1..Len(s) : s[i] = ".") ELSE 0

\* The characters t spell |y| at p decimals: the nearest decimal, no sign.
SpellsAbs(t, y, p) ==
    CASE IsNaN(y) -> t = <<"n", "a", "n">>
      [] IsInf(y) -> t = <<"i", "n", "f">>
      [] OTHER ->
           /\ Chars(t) \subseteq {Digit(d) : d \in 0..9} \cup {"."}
           /\ DecimalsOf(t) = p
           /\ ("." \in Chars(t)) <=> (p > 0)
           /\ 2 * Abs(NumberOf(t) * Den - y.m * 10^p) <= Den

\* C10: complex_latex renders the imaginary term as a sign, '+' exactly when
\* y >= 0 (so for -0.0 too) and '-' otherwise, then |y| at p decimals without a
\* minus of its own; the term is the same whatever x is.
ImagTermSignAndDigits ==
    Len(rets) = 1 =>
        /\ ImagSignOf(rets[1]) = (IF FGeZero(args.y) THEN "+" ELSE "-")
        /\ "-" \notin Chars(ImagDigitsOf(rets[1]))
        /\ SpellsAbs(ImagDigitsOf(rets[1]), args.y, args.p)
        /\ \A x \in LatexReals :
             /\ ImagSignOf(complex_latex(x, args.y, args.p)) = ImagSignOf(rets[1])
             /\ ImagDigitsOf(complex_latex(x, args.y, args.p))
                    = ImagDigitsOf(rets[1])

\* y = -0.0 under a negative x at three decimals: the term is + j0.000.
NegativeZeroRendersPlus ==
    /\ Len(rets) = 1
    /\ args.y = Fin(TRUE, 0) /\ args.x.neg /\ args.p = 3
    /\ ImagSignOf(rets[1]) = "+"
    /\ ImagDigitsOf(rets[1]) = <<"0", ".", "0", "0", "0">>

=============================================================================
